---- MODULE Spec2Model ----
(***************************************************************************)
(* Signal-Equalizer: the band list kept by AudioProvider                   *)
(* (Frontend/app/src/contexts/AudioContext.jsx), the handlers of           *)
(* components/GenericMode.jsx that edit it, and the gain curve            *)
(* generateGainArray builds from it.                                       *)
(*                                                                         *)
(* AudioContext.jsx holds two live AudioProvider texts: lines 427-763      *)
(* (cosine taper, multiplicative overlap, debounced apply) and lines       *)
(* 788-1148 (rectangular window, overwrite, immediate apply).  Both are    *)
(* modelled; the second one's definitions carry the suffix _2.             *)
(*                                                                         *)
(* Numbers.  A JavaScript number is modelled as a normalised fraction      *)
(* [n, d] with d >= 0: d > 0 is the finite value n/d, 0/0 is NaN, 1/0 and  *)
(* -1/0 are +Infinity and -Infinity.  Arithmetic is exact on finite        *)
(* values (binary64 rounding is not modelled) and follows IEEE-754 for     *)
(* NaN and the infinities.                                                 *)
(***************************************************************************)
EXTENDS Integers, Sequences, FiniteSets, TLC

VARIABLES
    phase,          \* "constructed", "childMounted" (child effects ran), "mounted"
    sliders,        \* AudioProvider state `sliders` (useState, line 433)
    now,            \* the value Date.now() returns (ms)
    debounceTimer,  \* pending _.debounce(applyEqualizer, 200) call: <<>> or <<bands>>
    loadTimer,      \* pending setTimeout of loadSettings: <<>> or <<[closure, file]>>
    assignedIds,    \* history: every id an add operation has assigned, in order
    lastCall,       \* history: the last handler run, its arguments and results
    view,           \* which GenericMode is mounted: "none", "components", "modes"
    localSliders,   \* modes/GenericMode.jsx state `sliders` (useState, line 20)
    provider,       \* which AudioProvider text is running: 1 (lines 427-763), 2 (788-1148)
    inputSignal,    \* AudioProvider state: id of the input AudioBuffer, 0 for null
    outputSignal,   \* AudioProvider state: id of the output AudioBuffer, 0 for null
    buffers,        \* the AudioBuffers created so far; an id is a position here
    runs,           \* applyEqualizer calls awaiting the backend
    isProcessing,   \* AudioProvider state `isProcessing`
    lastApply,      \* history: the last applyEqualizer run that completed
    runSeq,         \* history: how many applyEqualizer runs have started
    argSliders,     \* generateGainArray: argument `sliders`
    argBins,        \* generateGainArray: argument `frequencyBins`
    retGains,       \* what generateGainArray (line 517) returned, <<>> before the call
    retGains_2,     \* what generateGainArray (line 883) returned, <<>> before the call
    retAgain,       \* what a second call of generateGainArray (line 517) returned
    selection,      \* modes/GenericMode.jsx state `selection` (line 26): <<>> for null
    isSelecting,    \* modes/GenericMode.jsx state (line 27)
    selectionTimer, \* pending setTimeout of createBandFromSelection (line 342)
    currentSelection, \* modes/GenericMode.jsx state (line 35): <<>> for null
    audioSourceRef, \* modes/GenericMode.jsx ref (line 32): a position in regionSources, 0 for null
    isPlayingRegion, \* modes/GenericMode.jsx state (line 31)
    regionSources,  \* the buffer sources playSelectedRegion has created
    lastPreview,    \* history: the last handleBandPreview call and what it built
    isPlaying,      \* AudioProvider state `isPlaying` (line 431)
    currentTime,    \* AudioProvider state `currentTime` (line 432)
    sourceRef,      \* AudioProvider ref (line 439): a position in sources, 0 for null
    startTimeRef,   \* AudioProvider ref (line 440)
    animationFrameRef, \* AudioProvider ref (line 441): the playAudio call whose
                    \* updateTime requested the last frame, 0 for null
    sources,        \* the buffer sources playAudio has created, each with the
                    \* frame its updateTime has requested
    audioClock,     \* audioContextRef.current.currentTime, in sample periods
    lastPlay,       \* history: the last of playAudio, stopAudio that was called
    maxHz,          \* FrequencyGraph: useMemo over frequencyData (part_001 lines 52-55)
    sliderList,     \* FrequencyGraph state (part_001 line 46)
    draftRange,     \* FrequencyGraph state (part_001 line 47)
    graphPhase      \* FrequencyGraph: "constructed", "mounted" (effects ran)

vars == <<phase, sliders, now, debounceTimer, loadTimer, assignedIds, lastCall,
          view, localSliders, provider, inputSignal, outputSignal, buffers, runs,
          isProcessing, lastApply, runSeq, argSliders, argBins, retGains,
          retGains_2,
          retAgain, selection, isSelecting, selectionTimer, currentSelection,
          audioSourceRef, isPlayingRegion,
          regionSources, lastPreview, isPlaying, currentTime, sourceRef,
          startTimeRef, animationFrameRef, sources, audioClock, lastPlay,
          maxHz, sliderList, draftRange, graphPhase>>

progVars == <<phase, sliders, now, debounceTimer, loadTimer, assignedIds, lastCall,
              view, localSliders>>
signalVars == <<provider, inputSignal, outputSignal, buffers, runs, isProcessing,
                lastApply, runSeq>>
gainVars == <<argSliders, argBins, retGains, retGains_2, retAgain>>
previewVars == <<selection, isSelecting, selectionTimer, currentSelection,
                 audioSourceRef, isPlayingRegion, regionSources, lastPreview>>
playVars == <<isPlaying, currentTime, sourceRef, startTimeRef, animationFrameRef,
              sources, audioClock, lastPlay>>
graphVars == <<maxHz, sliderList, draftRange, graphPhase>>
viewVars == <<previewVars, playVars, graphVars>>

(***************************************************************************)
(* JavaScript numbers                                                      *)
(***************************************************************************)
Abs(x) == IF x < 0 THEN -x ELSE x

Sign(x) == IF x > 0 THEN 1 ELSE IF x < 0 THEN -1 ELSE 0

RECURSIVE GCD(_, _)
GCD(a, b) == IF b = 0 THEN a ELSE GCD(b, a % b)

\* the number n/d, normalised
Num(n, d) ==
    IF d = 0 THEN [n |-> Sign(n), d |-> 0]
    ELSE LET g == GCD(Abs(n), Abs(d))
         IN  [n |-> (Sign(d) * n) \div g, d |-> Abs(d) \div g]

NaN == [n |-> 0, d |-> 0]
Zero == Num(0, 1)
One == Num(1, 1)
Two == Num(2, 1)
Four == Num(4, 1)

IsNaN(x) == x.d = 0 /\ x.n = 0
IsFinite(x) == x.d # 0

\* a * b
JsMul(a, b) == Num(a.n * b.n, a.d * b.d)

\* a / b
JsDiv(a, b) == Num(a.n * b.d * (IF b.n < 0 THEN -1 ELSE 1), a.d * Abs(b.n))

\* a + b
JsAdd(a, b) ==
    IF a.d = 0 /\ b.d = 0
    THEN (IF a.n = b.n THEN a ELSE NaN)
    ELSE Num(a.n * b.d + b.n * a.d, a.d * b.d)

\* a - b
JsSub(a, b) == JsAdd(a, [n |-> -b.n, d |-> b.d])

\* a <= b (false when either is NaN)
JsLe(a, b) ==
    /\ ~IsNaN(a)
    /\ ~IsNaN(b)
    /\ IF a.d = 0 /\ b.d = 0 THEN a.n <= b.n ELSE a.n * b.d <= b.n * a.d

\* a >= b
JsGe(a, b) == JsLe(b, a)

\* a < b
JsLt(a, b) == JsLe(a, b) /\ a # b

\* Math.abs(a)
MathAbs(a) == [n |-> Abs(a.n), d |-> a.d]

\* Math.cos((norm * Math.PI) / 2) for norm in [0, 1]: Bhaskara's rational
\* form 4(1 - norm^2) / (4 + norm^2), which is exact at norm = 0 (1),
\* norm = 2/3 (1/2) and norm = 1 (0) and within 0.002 in between; NaN for NaN.
MathCosHalfPi(norm) ==
    LET sq == JsMul(norm, norm)
    IN  JsDiv(JsMul(Four, JsSub(One, sq)), JsAdd(Four, sq))

(***************************************************************************)
(* generateGainArray, AudioProvider of lines 427-763                       *)
(***************************************************************************)
\* lines 521-531: the factor one slider contributes at frequency freq
smoothGain(slider, freq) ==
    LET halfWidth == JsDiv(slider.width, Two)
        distance == MathAbs(JsSub(freq, slider.centerFreq))
        norm == JsDiv(distance, halfWidth)
        smooth == MathCosHalfPi(norm)
    IN  JsAdd(One, JsMul(JsSub(slider.gain, One), smooth))

\* the test of line 528 with the full width in place of halfWidth
inBand_fullWidth(slider, freq) ==
    JsLe(MathAbs(JsSub(freq, slider.centerFreq)), slider.width)

\* line 528: distance <= halfWidth
inBand(slider, freq) ==
    JsLe(MathAbs(JsSub(freq, slider.centerFreq)), JsDiv(slider.width, Two))

\* lines 524-534: the inner loop for one slider
applySlider(gains, slider, frequencyBins) ==
    [i \in 1..Len(frequencyBins) |->
        IF inBand(slider, frequencyBins[i])
        THEN JsMul(gains[i], smoothGain(slider, frequencyBins[i]))
        ELSE gains[i]]

\* lines 520-535: sliders.forEach
RECURSIVE forEachSlider(_, _, _)
forEachSlider(gains, bands, frequencyBins) ==
    IF bands = <<>> THEN gains
    ELSE forEachSlider(applySlider(gains, Head(bands), frequencyBins),
                       Tail(bands), frequencyBins)

\* lines 517-538 with `gains` kept from the call before instead of line 518
generateGainArray_keepsGains(bands, frequencyBins) ==
    forEachSlider(IF Len(retGains) = Len(frequencyBins) /\ retGains # <<>>
                  THEN retGains
                  ELSE [i \in 1..Len(frequencyBins) |-> One],
                  bands, frequencyBins)

generateGainArray(bands, frequencyBins) ==
    forEachSlider([i \in 1..Len(frequencyBins) |-> One], bands, frequencyBins)

(***************************************************************************)
(* generateGainArray, AudioProvider of lines 788-1148                      *)
(***************************************************************************)
\* lines 887-892: freq >= startFreq && freq <= endFreq
inBand_2(slider, freq) ==
    LET startFreq == JsSub(slider.centerFreq, JsDiv(slider.width, Two))
        endFreq == JsAdd(slider.centerFreq, JsDiv(slider.width, Two))
    IN  JsGe(freq, startFreq) /\ JsLe(freq, endFreq)

\* lines 890-895
applySlider_2(gains, slider, frequencyBins) ==
    [i \in 1..Len(frequencyBins) |->
        IF inBand_2(slider, frequencyBins[i]) THEN slider.gain ELSE gains[i]]

RECURSIVE forEachSlider_2(_, _, _)
forEachSlider_2(gains, bands, frequencyBins) ==
    IF bands = <<>> THEN gains
    ELSE forEachSlider_2(applySlider_2(gains, Head(bands), frequencyBins),
                         Tail(bands), frequencyBins)

generateGainArray_2(bands, frequencyBins) ==
    forEachSlider_2([i \in 1..Len(frequencyBins) |-> One], bands, frequencyBins)

(***************************************************************************)
(* Bands                                                                   *)
(***************************************************************************)
Hz(n) == Num(n, 1)

\* `Band ${n}` (line 656)
BandLabel(n) == "Band " \o ToString(n)

Band(id, centerFreq, width, gain, label) ==
    [id |-> id, centerFreq |-> centerFreq, width |-> width, gain |-> gain,
     label |-> label]

\* lines 449-455
defaultSliders ==
    << Band(1, Hz(100), Hz(150), One, "Bass"),
       Band(2, Hz(1000), Hz(800), One, "Mid"),
       Band(3, Hz(5000), Hz(3000), One, "Treble") >>

(***************************************************************************)
(* State after the useState / useRef initialisers of AudioProvider         *)
(***************************************************************************)
Epoch == 10

ProgInit ==
    /\ phase = "constructed"
    /\ sliders = <<>>
    /\ now = Epoch
    /\ debounceTimer = <<>>
    /\ loadTimer = <<>>
    /\ assignedIds = <<>>
    /\ lastCall = [op |-> "none"]
    /\ view = "none"
    /\ localSliders = <<>>

\* lines 428-435: useState(null), useState(false); nothing is awaited yet
SignalIdle ==
    /\ provider = 1
    /\ inputSignal = 0
    /\ outputSignal = 0
    /\ buffers = <<>>
    /\ runs = <<>>
    /\ isProcessing = FALSE
    /\ lastApply = [op |-> "none"]
    /\ runSeq = 0

GainIdle ==
    /\ argSliders = <<>>
    /\ argBins = <<>>
    /\ retGains = <<>>
    /\ retGains_2 = <<>>
    /\ retAgain = <<>>

\* modes/GenericMode.jsx lines 26-35: useState(null), useState(false),
\* useRef(null)
PreviewIdle ==
    /\ selection = <<>>
    /\ isSelecting = FALSE
    /\ selectionTimer = FALSE
    /\ currentSelection = <<>>
    /\ audioSourceRef = 0
    /\ isPlayingRegion = FALSE
    /\ regionSources = <<>>
    /\ lastPreview = [op |-> "none"]

\* AudioContext.jsx lines 431-441: useState(false), useState(0), useRef(null),
\* useRef(0); a new AudioContext's currentTime is 0
PlayIdle ==
    /\ isPlaying = FALSE
    /\ currentTime = 0
    /\ sourceRef = 0
    /\ startTimeRef = 0
    /\ animationFrameRef = 0
    /\ sources = <<>>
    /\ audioClock = 0
    /\ lastPlay = "none"

\* part_001 lines 46-47: FrequencyGraph not rendered yet
GraphIdle ==
    /\ maxHz = 0
    /\ sliderList = <<>>
    /\ draftRange = [startHz |-> 500, endHz |-> 1500]
    /\ graphPhase = "constructed"

ViewIdle == PreviewIdle /\ PlayIdle /\ GraphIdle

(***************************************************************************)
(* generateGainArray as a function of its arguments: the arguments are     *)
(* drawn from bounded sets and each provider's function is applied.        *)
(***************************************************************************)
MaxGainBands == 2
MaxBins == 2

\* the axis of the spec's end-to-end example, and 50 Hz (inside the taper)
BinInputs == {Hz(25), Hz(50), Hz(100), Hz(175)}
CenterInputs == {Hz(50), Hz(100)}
WidthInputs == {Zero, Hz(150)}
GainInputs == {Num(1, 2), Num(3, 2)}

BandInputs(k) ==
    { Band(k, c, w, g, BandLabel(k)) :
        c \in CenterInputs, w \in WidthInputs, g \in GainInputs }

\* band lists of length n whose k-th band has id k
RECURSIVE BandLists(_)
BandLists(n) ==
    IF n = 0 THEN {<<>>}
    ELSE {Append(l, b) : l \in BandLists(n - 1), b \in BandInputs(n)}

BinLists == UNION {[1..n -> BinInputs] : n \in 1..MaxBins}

InitGain ==
    /\ ProgInit
    /\ SignalIdle
    /\ argSliders \in UNION {BandLists(n) : n \in 0..MaxGainBands}
    /\ argBins \in BinLists
    /\ retGains = <<>>
    /\ retGains_2 = <<>>
    /\ retAgain = <<>>
    /\ ViewIdle

\* a consumer calls generateGainArray of the provider of lines 427-763
CallGenerateGainArray ==
    /\ retGains = <<>>
    /\ retGains' = generateGainArray(argSliders, argBins)
    /\ UNCHANGED <<argSliders, argBins, retGains_2, retAgain>>
    /\ UNCHANGED <<progVars, signalVars, viewVars>>

\* a consumer calls generateGainArray of the provider of lines 788-1148
CallGenerateGainArray_2 ==
    /\ retGains_2 = <<>>
    /\ retGains_2' = generateGainArray_2(argSliders, argBins)
    /\ UNCHANGED <<argSliders, argBins, retGains, retAgain>>
    /\ UNCHANGED <<progVars, signalVars, viewVars>>

\* the consumer calls generateGainArray of lines 517-538 again, with the
\* same arguments
CallGenerateGainArrayAgain ==
    /\ retGains # <<>>
    /\ retAgain = <<>>
    /\ retAgain' = generateGainArray(argSliders, argBins)
    /\ UNCHANGED <<argSliders, argBins, retGains, retGains_2>>
    /\ UNCHANGED <<progVars, signalVars, viewVars>>

NextGain ==
    \/ CallGenerateGainArray
    \/ CallGenerateGainArray_2
    \/ CallGenerateGainArrayAgain

SpecGain == InitGain /\ [][NextGain]_vars

(***************************************************************************)
(* Claims about generateGainArray, checked under SpecGain                  *)
(***************************************************************************)
Called == retGains # <<>>
Called_2 == retGains_2 # <<>>

Bins == 1..Len(argBins)
BandIdx == 1..Len(argSliders)

\* f lies in [centerFreq - width/2, centerFreq + width/2]
Covers(b, f) ==
    /\ JsLe(JsSub(b.centerFreq, JsDiv(b.width, Two)), f)
    /\ JsLe(f, JsAdd(b.centerFreq, JsDiv(b.width, Two)))

\* f lies exactly on the edge of b: |f - centerFreq| = width/2
OnEdge(b, f) == MathAbs(JsSub(f, b.centerFreq)) = JsDiv(b.width, Two)

OnlyCoveredBy(f, ks) == \A k \in BandIdx \ ks : ~Covers(argSliders[k], f)

\* the claim of C1 about one returned curve
OverlapMultiplies(gains) ==
    \A i \in Bins : \A k1, k2 \in BandIdx :
        ( /\ k1 < k2
          /\ argSliders[k1].centerFreq = argBins[i]
          /\ argSliders[k2].centerFreq = argBins[i]
          /\ JsLt(Zero, argSliders[k1].width)
          /\ JsLt(Zero, argSliders[k2].width)
          /\ OnlyCoveredBy(argBins[i], {k1, k2}) )
        => gains[i] = JsMul(argSliders[k1].gain, argSliders[k2].gain)

\* C1: two bands of positive width centred at an axis entry f, no other band
\* covering f: the curve value at f is g1 * g2, in every generateGainArray.
C1_OverlapMultiplies ==
    /\ Called => OverlapMultiplies(retGains)
    /\ Called_2 => OverlapMultiplies(retGains_2)

\* C1, restricted to the provider of lines 427-763 (holds there)
C1_OverlapMultiplies_Lines517 == Called => OverlapMultiplies(retGains)

\* C2: at an axis entry equal to a band's centerFreq, no other band covering
\* it, the curve value is exactly that band's gain, whatever the band's width.
C2_CenterIsGain ==
    Called =>
        \A i \in Bins : \A k \in BandIdx :
            ( /\ argSliders[k].centerFreq = argBins[i]
              /\ OnlyCoveredBy(argBins[i], {k}) )
            => retGains[i] = argSliders[k].gain

\* C2, restricted to bands of positive width (holds)
C2_CenterIsGain_PositiveWidth ==
    Called =>
        \A i \in Bins : \A k \in BandIdx :
            ( /\ argSliders[k].centerFreq = argBins[i]
              /\ JsLt(Zero, argSliders[k].width)
              /\ OnlyCoveredBy(argBins[i], {k}) )
            => retGains[i] = argSliders[k].gain

EdgeIsUnity(gains) ==
    \A i \in Bins : \A k \in BandIdx :
        ( /\ OnEdge(argSliders[k], argBins[i])
          /\ OnlyCoveredBy(argBins[i], {k}) )
        => gains[i] = One

\* C3: at an axis entry exactly on a band's edge, no other band covering it,
\* the curve value is 1.0.
C3_EdgeIsUnity ==
    /\ Called => EdgeIsUnity(retGains)
    /\ Called_2 => EdgeIsUnity(retGains_2)

OutsideIsUnity(gains) ==
    \A i \in Bins :
        (\A k \in BandIdx : ~Covers(argSliders[k], argBins[i]))
        => gains[i] = One

\* C4: at every axis entry outside the range of every band the curve value is
\* exactly 1.0; with no bands the curve is 1.0 everywhere.
C4_OutsideIsUnity ==
    /\ Called => OutsideIsUnity(retGains)
    /\ Called_2 => OutsideIsUnity(retGains_2)

\* C4 witness: a curve of each provider was returned for a band list that
\* changes one axis entry and leaves another, outside every band, at 1.0
C4_Witness ==
    /\ Called
    /\ Called_2
    /\ argSliders # <<>>
    /\ \E i, j \in Bins :
        /\ \A k \in BandIdx : ~Covers(argSliders[k], argBins[i])
        /\ retGains[i] = One
        /\ retGains_2[i] = One
        /\ IsFinite(retGains[j])
        /\ retGains[j] # One
        /\ retGains_2[j] # One

\* C5: with a band of width 0 in the list, every value of the returned curve
\* is a finite number.
C5_ZeroWidthFinite ==
    (Called /\ \E k \in BandIdx : argSliders[k].width = Zero)
    => \A i \in Bins : IsFinite(retGains[i])

Reorderings(bands) ==
    { [i \in 1..Len(bands) |-> bands[p[i]]] : p \in Permutations(1..Len(bands)) }

\* C6: every permutation of the band list gives the same curve, in every
\* generateGainArray.
C6_OrderIndependent ==
    \A bands \in Reorderings(argSliders) :
        /\ Called => generateGainArray(bands, argBins) = retGains
        /\ Called_2 => generateGainArray_2(bands, argBins) = retGains_2

\* C6, restricted to the provider of lines 427-763 (holds there)
C6_OrderIndependent_Lines517 ==
    \A bands \in Reorderings(argSliders) :
        Called => generateGainArray(bands, argBins) = retGains

(***************************************************************************)
(* addSlider / updateSlider / removeSlider (lines 650-677; the provider of *)
(* lines 788-1148 has the same three bodies at lines 1006-1033).  Each     *)
(* reads `sliders` of the render that created it (its closure) and calls   *)
(* setSliders with a whole new list.                                       *)
(***************************************************************************)
\* { ...a, ...b }
Spread(a, b) ==
    [k \in DOMAIN a \cup DOMAIN b |-> IF k \in DOMAIN b THEN b[k] ELSE a[k]]

\* truthiness of a number: false for 0 and NaN
TruthyNum(x) == ~IsNaN(x) /\ x.n # 0

\* sliderData[k] || dflt, for a numeric field
OrNum(sliderData, k, dflt) ==
    IF k \in DOMAIN sliderData /\ TruthyNum(sliderData[k])
    THEN sliderData[k] ELSE dflt

\* sliderData.label || dflt
OrLabel(sliderData, dflt) ==
    IF "label" \in DOMAIN sliderData /\ sliderData.label # ""
    THEN sliderData.label ELSE dflt

\* lines 651-656 without the spread of line 657
newSlider_noSpread(closure, sliderData, dateNow) ==
    [id |-> dateNow,
     centerFreq |-> OrNum(sliderData, "centerFreq", Hz(1000)),
     width |-> OrNum(sliderData, "width", Hz(500)),
     gain |-> OrNum(sliderData, "gain", One),
     label |-> OrLabel(sliderData, BandLabel(Len(closure) + 1))]

\* lines 651-658; closure is `sliders` as addSlider sees it, dateNow is Date.now()
newSlider(closure, sliderData, dateNow) ==
    Spread([id |-> dateNow,
            centerFreq |-> OrNum(sliderData, "centerFreq", Hz(1000)),
            width |-> OrNum(sliderData, "width", Hz(500)),
            gain |-> OrNum(sliderData, "gain", One),
            label |-> OrLabel(sliderData, BandLabel(Len(closure) + 1))],
           sliderData)

\* line 659: what addSlider passes to setSliders
addSlider(closure, sliderData, dateNow) ==
    Append(closure, newSlider(closure, sliderData, dateNow))

\* lines 666-668: what updateSlider passes to setSliders
updateSlider(closure, sliderId, updates) ==
    [i \in 1..Len(closure) |->
        IF closure[i].id = sliderId THEN Spread(closure[i], updates)
        ELSE closure[i]]

\* removal by position, the last band going when no band has the id
\* (splice(findIndex(...), 1))
removeSlider_spliceLast(closure, sliderId) ==
    LET found == {i \in 1..Len(closure) : closure[i].id = sliderId}
        at == IF found = {} THEN Len(closure)
              ELSE CHOOSE i \in found : \A j \in found : i <= j
    IN  SubSeq(closure, 1, at - 1) \o SubSeq(closure, at + 1, Len(closure))

\* line 674: what removeSlider passes to setSliders
removeSlider(closure, sliderId) ==
    SelectSeq(closure, LAMBDA slider : slider.id # sliderId)

\* several addSlider calls issued from one closure, in order: the bands they return
RECURSIVE addedBands(_, _, _)
addedBands(closure, dataList, dateNow) ==
    IF dataList = <<>> THEN <<>>
    ELSE <<newSlider(closure, Head(dataList), dateNow)>>
         \o addedBands(closure, Tail(dataList), dateNow)

\* ... and `sliders` after them: every call overwrites the state with its own
\* list, so the last setSliders stands
afterAdds(current, closure, dataList, dateNow) ==
    IF dataList = <<>> THEN current
    ELSE addSlider(closure, dataList[Len(dataList)], dateNow)

\* removeSlider called for every band of the closure, from that closure
\* (components/GenericMode.jsx line 120)
afterRemoves(current, closure) ==
    IF closure = <<>> THEN current
    ELSE removeSlider(closure, closure[Len(closure)].id)

idsOf(bands) == [i \in 1..Len(bands) |-> bands[i].id]

Range(f) == {f[i] : i \in DOMAIN f}

(***************************************************************************)
(* Inputs                                                                  *)
(***************************************************************************)
MaxEvents == 3
\* an id no band has
AbsentId == Epoch - 1

Infinity == Num(1, 0)

\* components/GenericMode.jsx lines 35-54
genericDefaults ==
    << [centerFreq |-> Hz(100), width |-> Hz(150), gain |-> One, label |-> "Bass"],
       [centerFreq |-> Hz(1000), width |-> Hz(800), gain |-> One, label |-> "Mid"],
       [centerFreq |-> Hz(5000), width |-> Hz(3000), gain |-> One, label |-> "Treble"] >>

\* components/GenericMode.jsx lines 60-65
handleAddSliderData(closure) ==
    [centerFreq |-> Hz(1000), width |-> Hz(500), gain |-> One,
     label |-> BandLabel(Len(closure) + 1)]

\* arguments of addSlider: none, a muted band, a band of width 0, a band
\* whose gain is not a finite number
SliderDataInputs ==
    << [k \in {} |-> Zero],
       [gain |-> Zero],
       [centerFreq |-> Hz(100), width |-> Zero, gain |-> Num(3, 2)],
       [centerFreq |-> Hz(100), gain |-> Infinity] >>

\* arguments of updateSlider: what SliderController's inputs send
\* (lines 7-17: parseFloat of a range or number input), and raw values of a
\* caller that does not go through the inputs
UpdateInputs ==
    << [gain |-> Num(3, 2)],
       [gain |-> Num(-1, 1)],
       [gain |-> NaN],
       [width |-> Zero],
       [centerFreq |-> Hz(5)] >>

\* components/GenericMode.jsx lines 90-101: the records saveSettings writes;
\* JSON.stringify and JSON.parse give every finite number back unchanged
saveSettings(bands) ==
    [i \in 1..Len(bands) |->
        [id |-> bands[i].id, centerFreq |-> bands[i].centerFreq,
         width |-> bands[i].width, gain |-> bands[i].gain,
         label |-> bands[i].label]]

\* settings files: one written by saveSettings of components/GenericMode.jsx
\* (lines 90-101, records carry their id) from the default bands with two
\* gains changed, and one in the format of handleSaveSettings
\* (modes/GenericMode.jsx lines 586-596, no id) edited by hand, once with a
\* gain of 5 and once with the label left out
FileInputs ==
    << << [id |-> 1, centerFreq |-> Hz(100), width |-> Hz(150),
           gain |-> Num(3, 2), label |-> "Bass"],
          [id |-> 2, centerFreq |-> Hz(1000), width |-> Hz(800),
           gain |-> Num(1, 2), label |-> "Mid"] >>,
       << [centerFreq |-> Hz(100), width |-> Hz(150), gain |-> Hz(5),
           label |-> "Loud"] >>,
       << [centerFreq |-> Hz(200), width |-> Hz(100), gain |-> Zero] >> >>

(***************************************************************************)
(* Mount: effects run child first.  Either GenericMode can be the child    *)
(* of AudioProvider (App.jsx mounts modes/GenericMode.jsx).                *)
(***************************************************************************)
\* components/GenericMode.jsx lines 28-57: if (sliders.length === 0)
\* addDefaultSliders(), three addSlider calls from the closure of the first render
MountGenericMode ==
    /\ phase = "constructed"
    /\ phase' = "childMounted"
    /\ view' = "components"
    /\ IF Len(sliders) = 0
       THEN /\ sliders' = afterAdds(sliders, sliders, genericDefaults, now)
            /\ debounceTimer' = <<sliders'>>
            /\ assignedIds' =
                   assignedIds \o idsOf(addedBands(sliders, genericDefaults, now))
            /\ lastCall' = [op |-> "addDefaultSliders", before |-> sliders,
                            closure |-> sliders, data |-> genericDefaults,
                            assignedBefore |-> assignedIds,
                            rets |-> addedBands(sliders, genericDefaults, now),
                            error |-> "none"]
       ELSE UNCHANGED <<sliders, debounceTimer, assignedIds, lastCall>>
    /\ UNCHANGED <<now, loadTimer, localSliders>>
    /\ UNCHANGED <<signalVars, gainVars, viewVars>>

\* modes/GenericMode.jsx lines 19-20 and 37-59: its effects leave the band
\* lists alone; the local list starts as useState([])
MountModesGenericMode ==
    /\ phase = "constructed"
    /\ phase' = "childMounted"
    /\ view' = "modes"
    /\ UNCHANGED <<sliders, now, debounceTimer, loadTimer, assignedIds, lastCall,
                   localSliders>>
    /\ UNCHANGED <<signalVars, gainVars, viewVars>>

\* lines 443-456: the provider's effect, addDefaultSliders() -> setSliders(defaultSliders)
MountProvider ==
    /\ phase = "childMounted"
    /\ phase' = "mounted"
    /\ sliders' = defaultSliders
    /\ lastCall' = [op |-> "mount", before |-> sliders, error |-> "none"]
    /\ UNCHANGED <<now, debounceTimer, loadTimer, assignedIds, view, localSliders>>
    /\ UNCHANGED <<signalVars, gainVars, viewVars>>

(***************************************************************************)
(* Handlers.  An event is handled by the closures of the latest render,    *)
(* which see the committed `sliders`; it happens at a later millisecond    *)
(* than everything before it, and Date.now() is one value throughout the   *)
(* handler.  In modes/GenericMode.jsx the handlers (lines 69-99) also      *)
(* update the local list, with functional updates.                         *)
(***************************************************************************)
\* one addSlider call (handleAddSlider of either GenericMode, or any consumer)
AddSlider(sliderData) ==
    /\ phase = "mounted"
    /\ now < Epoch + MaxEvents
    /\ now' = now + 1
    /\ sliders' = addSlider(sliders, sliderData, now')
    /\ localSliders' = IF view = "modes"
                       THEN Append(localSliders, newSlider(sliders, sliderData, now'))
                       ELSE localSliders
    /\ debounceTimer' = <<sliders'>>
    /\ assignedIds' = Append(assignedIds, newSlider(sliders, sliderData, now').id)
    /\ lastCall' = [op |-> "addSlider", before |-> sliders,
                    closure |-> sliders, data |-> <<sliderData>>,
                    assignedBefore |-> assignedIds,
                    rets |-> <<newSlider(sliders, sliderData, now')>>,
                    error |-> "none"]
    /\ UNCHANGED <<phase, loadTimer, view>>
    /\ UNCHANGED <<signalVars, gainVars, viewVars>>

\* one updateSlider call (handleUpdateSlider)
UpdateSlider(sliderId, updates) ==
    /\ phase = "mounted"
    /\ now < Epoch + MaxEvents
    /\ now' = now + 1
    /\ sliders' = updateSlider(sliders, sliderId, updates)
    /\ localSliders' = IF view = "modes"
                       THEN updateSlider(localSliders, sliderId, updates)
                       ELSE localSliders
    /\ debounceTimer' = <<sliders'>>
    /\ lastCall' = [op |-> "updateSlider", before |-> sliders,
                    id |-> sliderId, updates |-> updates, error |-> "none"]
    /\ UNCHANGED <<phase, loadTimer, assignedIds, view>>
    /\ UNCHANGED <<signalVars, gainVars, viewVars>>

\* one removeSlider call (handleRemoveSlider)
RemoveSlider(sliderId) ==
    /\ phase = "mounted"
    /\ now < Epoch + MaxEvents
    /\ now' = now + 1
    /\ sliders' = removeSlider(sliders, sliderId)
    /\ localSliders' = IF view = "modes"
                       THEN removeSlider(localSliders, sliderId)
                       ELSE localSliders
    /\ debounceTimer' = <<sliders'>>
    /\ lastCall' = [op |-> "removeSlider", before |-> sliders, id |-> sliderId,
                    error |-> "none"]
    /\ UNCHANGED <<phase, loadTimer, assignedIds, view>>
    /\ UNCHANGED <<signalVars, gainVars, viewVars>>

\* modes/GenericMode.jsx lines 101-107.  The context value (lines 738-758,
\* 1123-1143) has no clearAllSliders, so the name destructured at line 11 is
\* undefined and the call of line 102 throws a TypeError before line 103.
HandleClearAllSliders ==
    /\ phase = "mounted"
    /\ view = "modes"
    /\ now < Epoch + MaxEvents
    /\ now' = now + 1
    /\ lastCall' = [op |-> "handleClearAllSliders", before |-> sliders,
                    error |-> "TypeError"]
    /\ UNCHANGED <<phase, sliders, debounceTimer, loadTimer, assignedIds, view,
                   localSliders>>
    /\ UNCHANGED <<signalVars, gainVars, viewVars>>

\* what a handler's back-to-back updateSlider(id, {gain: 1.0}) calls, one per
\* band of `bands`, pass to setSliders: every call maps the `sliders` of the
\* render that created the handler (AudioContext.jsx lines 667-671)
resetCalls(closure, bands) ==
    [k \in 1..Len(bands) |-> updateSlider(closure, bands[k].id, [gain |-> One])]

\* the list React commits after the handler: the argument of the last
\* setSliders call, or the list as it was when there was no call
committed(closure, calls) ==
    IF calls = <<>> THEN closure ELSE calls[Len(calls)]

\* components/GenericMode.jsx lines 77-87: `sliders` is the context's list
HandleResetAll ==
    /\ phase = "mounted"
    /\ view = "components"
    /\ now < Epoch + MaxEvents
    /\ now' = now + 1
    /\ sliders' = committed(sliders, resetCalls(sliders, sliders))
    /\ debounceTimer' = IF sliders = <<>> THEN debounceTimer ELSE <<sliders'>>
    /\ lastCall' = [op |-> "handleResetAll", before |-> sliders,
                    error |-> "none"]
    /\ UNCHANGED <<phase, loadTimer, assignedIds, view, localSliders>>
    /\ UNCHANGED <<signalVars, gainVars, viewVars>>

\* modes/GenericMode.jsx lines 576-583: `sliders` is the local list of line
\* 20; handleUpdateSlider (lines 75-86) calls the context's updateSlider and
\* updates the local list with a functional update
HandleResetAllGains ==
    /\ phase = "mounted"
    /\ view = "modes"
    /\ now < Epoch + MaxEvents
    /\ now' = now + 1
    /\ sliders' = committed(sliders, resetCalls(sliders, localSliders))
    /\ localSliders' = [i \in 1..Len(localSliders) |->
                           Spread(localSliders[i], [gain |-> One])]
    /\ debounceTimer' = IF localSliders = <<>> THEN debounceTimer
                        ELSE <<sliders'>>
    /\ lastCall' = [op |-> "handleResetAllGains", before |-> sliders,
                    error |-> "none"]
    /\ UNCHANGED <<phase, loadTimer, assignedIds, view>>
    /\ UNCHANGED <<signalVars, gainVars, viewVars>>

\* components/GenericMode.jsx lines 109-138, the file read included: every
\* band of the closure is removed from that closure, then the adds are left
\* to a 100 ms timer that keeps the same closure.  One load at a time.
LoadSettings(file) ==
    /\ phase = "mounted"
    /\ view = "components"
    /\ now < Epoch + MaxEvents
    /\ loadTimer = <<>>
    /\ now' = now + 1
    /\ sliders' = afterRemoves(sliders, sliders)
    /\ debounceTimer' = IF sliders = <<>> THEN debounceTimer ELSE <<sliders'>>
    /\ loadTimer' = <<[closure |-> sliders, file |-> file]>>
    /\ lastCall' = [op |-> "loadSettings", before |-> sliders, file |-> file,
                    error |-> "none"]
    /\ UNCHANGED <<phase, assignedIds, view, localSliders>>
    /\ UNCHANGED <<signalVars, gainVars, viewVars>>

\* components/GenericMode.jsx lines 123-127: the timer's addSlider calls
LoadTimerFire ==
    /\ loadTimer # <<>>
    /\ now < Epoch + MaxEvents
    /\ now' = now + 1
    /\ LET closure == loadTimer[1].closure
           file == loadTimer[1].file
       IN  /\ sliders' = afterAdds(sliders, closure, file, now')
           /\ debounceTimer' = IF file = <<>> THEN debounceTimer ELSE <<sliders'>>
           /\ assignedIds' = assignedIds \o idsOf(addedBands(closure, file, now'))
           /\ lastCall' = [op |-> "loadSettingsAdds", before |-> sliders,
                           closure |-> closure, data |-> file,
                           assignedBefore |-> assignedIds,
                           rets |-> addedBands(closure, file, now'),
                           error |-> "none"]
    /\ loadTimer' = <<>>
    /\ UNCHANGED <<phase, view, localSliders>>
    /\ UNCHANGED <<signalVars, gainVars, viewVars>>

\* line 683: the debounced function is the applyEqualizer of the first render
\* (useRef keeps its first value); that closure's inputSignal is the
\* useState(null) of line 428, so line 541 returns before setSliders(bands)
DebounceFire ==
    /\ debounceTimer # <<>>
    /\ debounceTimer' = <<>>
    /\ UNCHANGED <<phase, sliders, now, loadTimer, assignedIds, lastCall, view,
                   localSliders>>
    /\ UNCHANGED <<signalVars, gainVars, viewVars>>

Init == ProgInit /\ SignalIdle /\ GainIdle /\ ViewIdle

Next ==
    \/ MountGenericMode
    \/ MountModesGenericMode
    \/ MountProvider
    \/ \E k \in DOMAIN SliderDataInputs : AddSlider(SliderDataInputs[k])
    \/ AddSlider(handleAddSliderData(sliders))
    \/ \E id \in Range(idsOf(sliders)) \cup {AbsentId} :
           \E k \in DOMAIN UpdateInputs : UpdateSlider(id, UpdateInputs[k])
    \/ \E id \in Range(idsOf(sliders)) \cup {AbsentId} : RemoveSlider(id)
    \/ lastCall.op = "removeSlider" /\ RemoveSlider(lastCall.id)
    \/ HandleClearAllSliders
    \/ HandleResetAll
    \/ HandleResetAllGains
    \/ \E k \in DOMAIN FileInputs : LoadSettings(FileInputs[k])
    \/ LoadSettings(saveSettings(sliders))
    \/ LoadTimerFire
    \/ DebounceFire

Spec == Init /\ [][Next]_vars

(***************************************************************************)
(* Claims about the band list, checked under Spec                          *)
(***************************************************************************)
AddOps == {"addSlider", "addDefaultSliders", "loadSettingsAdds"}

\* C7: the stored gain of every band is a finite number within [0, 2].
C7_GainInRange ==
    \A i \in 1..Len(sliders) :
        /\ IsFinite(sliders[i].gain)
        /\ JsLe(Zero, sliders[i].gain)
        /\ JsLe(sliders[i].gain, Two)

\* C8: the gain curve of the stored band list is negative at no axis entry.
C8_CurveNonNegative ==
    \A f \in BinInputs : ~JsLt(generateGainArray(sliders, <<f>>)[1], Zero)

\* C9: every id an add operation assigns differs from the id of every band
\* in the list and from every id assigned before it.
C9_IdsFresh ==
    lastCall.op \in AddOps =>
        \A k \in 1..Len(lastCall.rets) :
            /\ lastCall.rets[k].id \notin Range(idsOf(lastCall.before))
            /\ lastCall.rets[k].id \notin Range(lastCall.assignedBefore)
            /\ \A j \in 1..(k - 1) : lastCall.rets[j].id # lastCall.rets[k].id

\* C10: after the addSlider calls of a handler the list is the list before
\* them with the returned bands appended, in order.
C10_AddAppends ==
    lastCall.op \in AddOps => sliders = lastCall.before \o lastCall.rets

\* C10, restricted to a handler that calls addSlider once (holds)
C10_AddAppends_SingleCall ==
    lastCall.op = "addSlider" => sliders = lastCall.before \o lastCall.rets

Clamp(x, lo, hi) ==
    IF JsLt(x, lo) THEN lo ELSE IF JsLt(hi, x) THEN hi ELSE x

\* the valid range of each numeric field (SliderController.jsx lines 122-193)
FieldMin == [gain |-> Zero, centerFreq |-> Hz(20), width |-> Hz(50)]
FieldMax == [gain |-> Two, centerFreq |-> Hz(20000), width |-> Hz(20000)]

\* C12: after updateSlider(id, updates) with a numeric field outside its
\* valid range, the band with that id stores the field clamped to the nearest
\* bound.
C12_UpdateClamps ==
    lastCall.op = "updateSlider" =>
        \A i \in 1..Len(sliders) :
            sliders[i].id = lastCall.id =>
                \A f \in DOMAIN lastCall.updates \cap DOMAIN FieldMin :
                    ~IsNaN(lastCall.updates[f]) =>
                        sliders[i][f] =
                            Clamp(lastCall.updates[f], FieldMin[f], FieldMax[f])

NonFinite(d) ==
    \E f \in DOMAIN d \cap {"centerFreq", "width", "gain"} : ~IsFinite(d[f])

\* C13: an add whose argument has a non-finite centerFreq, width or gain is
\* rejected with a ValidationError and leaves the band list unchanged.
C13_AddRejectsNonFinite ==
    ( /\ lastCall.op \in AddOps
      /\ \E k \in 1..Len(lastCall.data) : NonFinite(lastCall.data[k]) )
    => /\ lastCall.error = "ValidationError"
       /\ sliders = lastCall.before

\* C14: updateSlider with an id no band has fails with a NotFoundError and
\* leaves the band list unchanged.
C14_UpdateAbsentFails ==
    ( /\ lastCall.op = "updateSlider"
      /\ lastCall.id \notin Range(idsOf(lastCall.before)) )
    => /\ lastCall.error = "NotFoundError"
       /\ sliders = lastCall.before

\* positions of the bands of a list whose id is not sliderId
Kept(bands, sliderId) == {i \in 1..Len(bands) : bands[i].id # sliderId}

C16_ClearAllEmpties ==
    lastCall.op = "handleClearAllSliders" =>
        /\ lastCall.error = "none"
        /\ sliders = <<>>
        /\ localSliders = <<>>

SameSettings(band, saved) ==
    /\ band.centerFreq = saved.centerFreq
    /\ band.width = saved.width
    /\ band.gain = saved.gain
    /\ band.label = saved.label

\* C20: after loadSettings of the file saveSettings wrote from the band list,
\* its delayed adds done, the list has as many bands as the file, in the same
\* order, each with the saved centerFreq, width, gain and label.
C20_SettingsRoundTrip ==
    ( /\ lastCall.op = "loadSettingsAdds"
      /\ lastCall.data = saveSettings(lastCall.closure) )
    => /\ Len(sliders) = Len(lastCall.data)
       /\ \A i \in 1..Len(sliders) : SameSettings(sliders[i], lastCall.data[i])

\* C28: after Reset All every band of the context's list has gain 1.0 and
\* its id, centerFreq, width and label are what they were before.
C28_ResetAllSetsGains ==
    lastCall.op \in {"handleResetAll", "handleResetAllGains"} =>
        /\ Len(sliders) = Len(lastCall.before)
        /\ \A i \in DOMAIN sliders :
               /\ sliders[i].gain = One
               /\ sliders[i].id = lastCall.before[i].id
               /\ SameSettings(sliders[i],
                               Spread(lastCall.before[i], [gain |-> One]))

\* C28, the part about the other fields (holds): Reset All keeps the number
\* of bands and each band's id, centerFreq, width and label
C28_ResetAllKeepsFields ==
    lastCall.op \in {"handleResetAll", "handleResetAllGains"} =>
        /\ Len(sliders) = Len(lastCall.before)
        /\ \A i \in DOMAIN sliders :
               /\ sliders[i].id = lastCall.before[i].id
               /\ SameSettings(Spread(sliders[i], [gain |-> One]),
                               Spread(lastCall.before[i], [gain |-> One]))

\* C29: in modes/GenericMode, once the provider is mounted, the local list
\* and the context's list hold the same bands in the same order.
C29_LocalMirrorsContext ==
    (view = "modes" /\ phase = "mounted") => localSliders = sliders

(***************************************************************************)
(* Signals.  An AudioBuffer is a record held in `buffers`; a reference to  *)
(* it is its position there, so two references are the same object exactly *)
(* when they are equal.  Conversion of samples to 32-bit floats is not     *)
(* modelled.                                                               *)
(***************************************************************************)
\* samples per signal, analyser.frequencyBinCount, applyEqualizer calls in
\* flight and AudioBuffers alive, scaled down (the program has 220500
\* samples and 1024 bins: more samples than bins)
SignalLength == 3
BinCount == 2
MaxRuns == 2
MaxBuffers == 4

\* utils/SyntheticSignal.jsx line 27, AudioContext.jsx line 509
SampleRate == 44100

SampleInputs == {Num(1, 2), Num(-1, 4)}

\* signals of n samples: one sample value repeated
SignalInputs(n) == {[i \in 1..n |-> sample] : sample \in SampleInputs}

\* audioContext.createBuffer(numberOfChannels, length, sampleRate): silence
createBuffer(numberOfChannels, length, sampleRate) ==
    [numberOfChannels |-> numberOfChannels, length |-> length,
     sampleRate |-> sampleRate,
     channels |-> [ch \in 1..numberOfChannels |-> [i \in 1..length |-> Zero]]]

\* utils/SyntheticSignal.jsx lines 155-179: one channel holding the signal
createSyntheticAudioBuffer(signal) ==
    [createBuffer(1, Len(signal), Hz(SampleRate)) EXCEPT !.channels = <<signal>>]

\* lines 506-515, with analyserRef set and the context running at SampleRate
getFrequencyBins ==
    [i \in 1..BinCount |->
        JsDiv(JsMul(Hz(i - 1), JsDiv(Hz(SampleRate), Two)), Hz(BinCount))]

\* gainArray[i] for a 0-based i: undefined beyond the array, and
\* x * undefined is NaN
gainAt(gainArray, i) == IF i + 1 \in DOMAIN gainArray THEN gainArray[i + 1] ELSE NaN

\* lines 602-610: the samples applySimpleProcessing writes
processedChannels(audioBuffer, gainArray) ==
    [ch \in 1..audioBuffer.numberOfChannels |->
        [i \in 1..audioBuffer.length |->
            JsMul(audioBuffer.channels[ch][i], gainAt(gainArray, i - 1))]]

\* lines 595-613 writing into audioBuffer itself instead of a new buffer
applySimpleProcessing_inPlace(heap, audioBuffer, gainArray) ==
    [heap |-> [heap EXCEPT ![audioBuffer].channels =
                               processedChannels(heap[audioBuffer], gainArray)],
     ret |-> audioBuffer]

\* lines 595-613: the heap after the call and the buffer returned
applySimpleProcessing(heap, audioBuffer, gainArray) ==
    LET clonedBuffer == createBuffer(heap[audioBuffer].numberOfChannels,
                                     heap[audioBuffer].length,
                                     heap[audioBuffer].sampleRate)
    IN  [heap |-> Append(heap, [clonedBuffer EXCEPT !.channels =
                                   processedChannels(heap[audioBuffer], gainArray)]),
         ret |-> Len(heap) + 1]

\* lines 978-990: the second provider's fallback copies the samples
applySimpleProcessing_2(heap, audioBuffer, gainArray) ==
    LET clonedBuffer == createBuffer(heap[audioBuffer].numberOfChannels,
                                     heap[audioBuffer].length,
                                     heap[audioBuffer].sampleRate)
    IN  [heap |-> Append(heap, [clonedBuffer EXCEPT !.channels =
                                   heap[audioBuffer].channels]),
         ret |-> Len(heap) + 1]

\* what the backend exchange can come to: fetch rejects, a status that is not
\* ok, a body that is not JSON, or a JSON body whose processedAudio is
\* missing, an array of numbers, or a string
Response(kind, type, items) ==
    [kind |-> kind, processedAudio |-> [type |-> type, items |-> items]]

\* lines 565-593 (and 942-975), given what the exchange came to.  Lines
\* 583-588 throw when processedAudio has no length (TypeError) or length 0
\* (createBuffer: NotSupportedError); a string has a length and
\* Float32Array.set takes its characters, each NaN as a number.
processWithBackend(prov, heap, audioBuffer, gainArray, response) ==
    IF /\ response.kind = "json"
       /\ response.processedAudio.type \in {"array", "string"}
       /\ Len(response.processedAudio.items) > 0
    THEN LET processedBuffer ==
                 createBuffer(1, Len(response.processedAudio.items),
                              heap[audioBuffer].sampleRate)
         IN  [heap |-> Append(heap, [processedBuffer EXCEPT !.channels =
                                        <<response.processedAudio.items>>]),
              ret |-> Len(heap) + 1, path |-> "backend"]
    ELSE LET local == IF prov = 1
                      THEN applySimpleProcessing(heap, audioBuffer, gainArray)
                      ELSE applySimpleProcessing_2(heap, audioBuffer, gainArray)
         IN  [heap |-> local.heap, ret |-> local.ret, path |-> "fallback"]

\* responses to a request that carried audioData
ResponseInputs(audioData) ==
    << Response("reject", "undefined", <<>>),
       Response("notOk", "undefined", <<>>),
       Response("invalidJson", "undefined", <<>>),
       Response("json", "undefined", <<>>),
       Response("json", "array", <<>>),
       Response("json", "array", audioData),
       Response("json", "array", SubSeq(audioData, 2, Len(audioData))),
       Response("json", "string", <<NaN, NaN, NaN>>) >>

\* the state after mount with modes/GenericMode as the child, the
\* synthetic signal not yet there
InitApply ==
    /\ phase = "mounted"
    /\ sliders = defaultSliders
    /\ now = Epoch
    /\ debounceTimer = <<>>
    /\ loadTimer = <<>>
    /\ assignedIds = <<>>
    /\ lastCall = [op |-> "mount", before |-> <<>>, error |-> "none"]
    /\ view = "modes"
    /\ localSliders = <<>>
    /\ provider \in {1, 2}
    /\ inputSignal = 0
    /\ outputSignal = 0
    /\ buffers = <<>>
    /\ runs = <<>>
    /\ isProcessing = FALSE
    /\ lastApply = [op |-> "none"]
    /\ runSeq = 0
    /\ GainIdle
    /\ ViewIdle

\* lines 479-490, called by the mount effect (line 445)
LoadSyntheticSignal(signal) ==
    /\ inputSignal = 0
    /\ buffers' = Append(buffers, createSyntheticAudioBuffer(signal))
    /\ inputSignal' = Len(buffers')
    /\ outputSignal' = Len(buffers')
    /\ UNCHANGED <<provider, runs, isProcessing, lastApply, runSeq>>
    /\ UNCHANGED <<progVars, gainVars, viewVars>>

\* lines 492-504: decodeAudioData gives a buffer at the context's rate; the
\* file here is stereo and one sample shorter than the synthetic signal
LoadAudioFile(signal) ==
    /\ inputSignal # 0
    /\ Len(buffers) + Len(runs) < MaxBuffers
    /\ buffers' = Append(buffers,
           [createBuffer(2, Len(signal), Hz(SampleRate))
               EXCEPT !.channels = <<signal, signal>>])
    /\ inputSignal' = Len(buffers')
    /\ outputSignal' = Len(buffers')
    /\ UNCHANGED <<provider, runs, isProcessing, lastApply, runSeq>>
    /\ UNCHANGED <<progVars, gainVars, viewVars>>

\* lines 540-553 (914-926) up to the fetch of processWithBackend; a call
\* with no input signal returns at line 541 and changes nothing
ApplyEqualizer(bands) ==
    /\ inputSignal # 0
    /\ Len(runs) < MaxRuns
    /\ Len(buffers) + Len(runs) < MaxBuffers
    /\ isProcessing' = TRUE
    /\ sliders' = bands
    /\ runSeq' = runSeq + 1
    /\ runs' = Append(runs,
           [seq |-> runSeq', audioBuffer |-> inputSignal, bands |-> bands,
            gainArray |-> IF provider = 1
                          THEN generateGainArray(bands, getFrequencyBins)
                          ELSE generateGainArray_2(bands, getFrequencyBins)])
    /\ UNCHANGED <<provider, inputSignal, outputSignal, buffers, lastApply>>
    /\ UNCHANGED <<phase, now, debounceTimer, loadTimer, assignedIds, lastCall,
                   view, localSliders>>
    /\ UNCHANGED <<gainVars, viewVars>>

\* the rest of run k: lines 574-592 and 555-562
BackendResponds(k, response) ==
    /\ k \in DOMAIN runs
    /\ LET run == runs[k]
           done == processWithBackend(provider, buffers, run.audioBuffer,
                                      run.gainArray, response)
       IN  /\ buffers' = done.heap
           /\ outputSignal' = done.ret
           /\ lastApply' = [op |-> "applyEqualizer", seq |-> run.seq,
                            audioBuffer |-> run.audioBuffer, bands |-> run.bands,
                            gainArray |-> run.gainArray, response |-> response,
                            path |-> done.path, ret |-> done.ret,
                            error |-> "none"]
    /\ runs' = SubSeq(runs, 1, k - 1) \o SubSeq(runs, k + 1, Len(runs))
    /\ isProcessing' = FALSE
    /\ UNCHANGED <<provider, inputSignal, runSeq>>
    /\ UNCHANGED <<progVars, gainVars, viewVars>>

\* a band edit followed by applyEqualizer with the edited list (the second
\* provider's updateSlider, lines 1020-1026), or a consumer calling
\* applyEqualizer of the context value with such a list
EditedBands == updateSlider(sliders, 1, [width |-> Hz(300), gain |-> Num(3, 2)])

NextApply ==
    \/ \E signal \in SignalInputs(SignalLength) : LoadSyntheticSignal(signal)
    \/ \E signal \in SignalInputs(SignalLength - 1) : LoadAudioFile(signal)
    \/ ApplyEqualizer(sliders)
    \/ ApplyEqualizer(EditedBands)
    \/ \E k \in DOMAIN runs :
           \E r \in DOMAIN ResponseInputs(<<>>) :
               BackendResponds(k,
                   ResponseInputs(buffers[runs[k].audioBuffer].channels[1])[r])

SpecApply == InitApply /\ [][NextApply]_vars

(***************************************************************************)
(* Claims about applyEqualizer, checked under SpecApply                    *)
(***************************************************************************)
Completed == lastApply.op = "applyEqualizer"

\* the exchange threw inside the try of processWithBackend: fetch rejected,
\* the status was not ok, the body was not JSON or had no processedAudio
Threw(response) ==
    \/ response.kind \in {"reject", "notOk", "invalidJson"}
    \/ response.kind = "json" /\ response.processedAudio.type = "undefined"

\* the request failed: as above, or the body's processedAudio is not an array
Failed(response) ==
    \/ Threw(response)
    \/ response.kind = "json" /\ response.processedAudio.type # "array"

\* the samples the provider's applySimpleProcessing gives for the run's input
LocalChannels ==
    IF provider = 1
    THEN processedChannels(buffers[lastApply.audioBuffer], lastApply.gainArray)
    ELSE buffers[lastApply.audioBuffer].channels

\* C17: a run whose backend request failed (fetch rejected, status not ok,
\* or a body without a processedAudio array) completed without an error, on
\* the fallback path, with the buffer applySimpleProcessing makes.
C17_FallbackOnFailure ==
    (Completed /\ Failed(lastApply.response)) =>
        /\ lastApply.error = "none"
        /\ lastApply.path = "fallback"
        /\ buffers[lastApply.ret].channels = LocalChannels

\* C17, restricted to the failures that throw inside the try (holds)
C17_FallbackOnFailure_Thrown ==
    (Completed /\ Threw(lastApply.response)) =>
        /\ lastApply.error = "none"
        /\ lastApply.path = "fallback"
        /\ buffers[lastApply.ret].channels = LocalChannels

\* C18: the buffer a completed run stored as outputSignal has as many
\* samples as the input signal of the run, and its sample rate.
C18_SameLengthAndRate ==
    Completed =>
        /\ buffers[lastApply.ret].length = buffers[lastApply.audioBuffer].length
        /\ buffers[lastApply.ret].sampleRate =
               buffers[lastApply.audioBuffer].sampleRate

\* C18, restricted to runs that took the fallback path (holds)
C18_SameLengthAndRate_Fallback ==
    (Completed /\ lastApply.path = "fallback") =>
        /\ buffers[lastApply.ret].length = buffers[lastApply.audioBuffer].length
        /\ buffers[lastApply.ret].sampleRate =
               buffers[lastApply.audioBuffer].sampleRate

\* C19: no step changes an existing AudioBuffer, so the samples of the input
\* signal stay as they are; a step of applyEqualizer leaves inputSignal
\* referring to the same buffer; the output a run stores is a buffer created
\* by that step, a different object from the run's input and from inputSignal.
C19_InputNotMutated ==
    [][ /\ \A b \in DOMAIN buffers : b \in DOMAIN buffers' /\ buffers'[b] = buffers[b]
        /\ runs' # runs => inputSignal' = inputSignal
        /\ Len(runs') < Len(runs) =>
               /\ outputSignal' \notin DOMAIN buffers
               /\ outputSignal' \in DOMAIN buffers'
               /\ outputSignal' # inputSignal'
               /\ \A k \in DOMAIN runs : outputSignal' # runs[k].audioBuffer ]_vars

\* C19 witness: a run completed on the fallback path and one before it on the
\* backend path; the output is another buffer than the input, with other
\* samples, and the input signal is still the buffer the run was given
C19_Witness ==
    /\ Completed
    /\ lastApply.path = "fallback"
    /\ \E b \in DOMAIN buffers :
           b \notin {lastApply.ret, lastApply.audioBuffer, inputSignal}
    /\ inputSignal = lastApply.audioBuffer
    /\ outputSignal = lastApply.ret
    /\ outputSignal # inputSignal
    /\ buffers[outputSignal].channels # buffers[inputSignal].channels

InitDebounce ==
    /\ phase = "mounted"
    /\ sliders = defaultSliders
    /\ now = Epoch
    /\ debounceTimer = <<>>
    /\ loadTimer = <<>>
    /\ assignedIds = <<>>
    /\ lastCall = [op |-> "mount", before |-> <<>>, error |-> "none"]
    /\ view = "modes"
    /\ localSliders = <<>>
    /\ provider = 1
    /\ \E signal \in SignalInputs(SignalLength) :
           buffers = <<createSyntheticAudioBuffer(signal)>>
    /\ inputSignal = Len(buffers)
    /\ outputSignal = Len(buffers)
    /\ runs = <<>>
    /\ isProcessing = FALSE
    /\ lastApply = [op |-> "none"]
    /\ runSeq = 0
    /\ GainIdle
    /\ ViewIdle

NextDebounce ==
    \/ AddSlider(handleAddSliderData(sliders))
    \/ \E id \in Range(idsOf(sliders)) :
           \E k \in DOMAIN UpdateInputs : UpdateSlider(id, UpdateInputs[k])
    \/ \E id \in Range(idsOf(sliders)) : RemoveSlider(id)
    \/ DebounceFire

SpecDebounce == InitDebounce /\ [][NextDebounce]_vars

\* C22: when the debounce timer of a burst of edits fires and an input signal
\* is loaded, an applyEqualizer run starts with the band list of the last
\* edit of the burst.
C22_DebouncedApplyRuns ==
    [][ (debounceTimer # <<>> /\ debounceTimer' = <<>> /\ inputSignal # 0) =>
            /\ Len(runs') = Len(runs) + 1
            /\ runs'[Len(runs')].bands = debounceTimer[1] ]_vars

(***************************************************************************)
(* More claims about applyEqualizer, checked under SpecApply               *)
(***************************************************************************)
\* C24: once no applyEqualizer run is in flight, the output that stands is
\* the one of the run that was started last.
C24_LastStartedWins ==
    (Completed /\ runs = <<>>) => lastApply.seq = runSeq

\* C25: isProcessing is true while an applyEqualizer run awaits its response.
C25_ProcessingTracksRuns == runs # <<>> => isProcessing

\* C25, the part about the end of a run (holds): the step that completes a
\* run sets isProcessing to false and keeps sliders and inputSignal
C25_RunEndsProcessing ==
    [][ Len(runs') < Len(runs) =>
            /\ ~isProcessing'
            /\ sliders' = sliders
            /\ inputSignal' = inputSignal ]_vars

\* C27: on the fallback path of the provider of lines 427-763 every sample
\* index is an index of gainArray and no output sample is NaN.
C27_FallbackGainsExist ==
    (Completed /\ lastApply.path = "fallback" /\ provider = 1) =>
        /\ buffers[lastApply.audioBuffer].length <= Len(lastApply.gainArray)
        /\ \A ch \in DOMAIN buffers[lastApply.ret].channels :
               \A i \in DOMAIN buffers[lastApply.ret].channels[ch] :
                   ~IsNaN(buffers[lastApply.ret].channels[ch][i])

(***************************************************************************)
(* FrequencyGraph (src/unnamed/part_001, from line 13).  Frequencies are   *)
(* whole numbers of Hz; gains are JavaScript numbers.                      *)
(***************************************************************************)
STEP_HZ == 10
MIN_LOG_HZ == 125

MaxGraphSliders == 1
MaxGraphId == 2

\* Math.min, Math.max of two whole numbers
MathMin(a, b) == IF a <= b THEN a ELSE b
MathMax(a, b) == IF a >= b THEN a ELSE b

\* line 25: Math.round(value / step) * step; Math.round is floor(x + 1/2)
snapToStep(value, step) == ((2 * value + step) \div (2 * step)) * step

\* lines 26-27
normalizeRange(start, end) == IF start <= end THEN <<start, end>> ELSE <<end, start>>

\* lines 29-41: the frequencies of the points, 0 to 8000 Hz in steps of 10
generateDummySpectrum == [i \in 1..801 |-> 10 * (i - 1)]

\* lines 52-55: frequencyData.reduce with Math.max from 0
\* (the maximum of the two halves, so that 801 points are not 801 nested calls)
RECURSIVE reduceMax(_)
reduceMax(data) ==
    IF data = <<>> THEN 0
    ELSE IF Len(data) = 1 THEN MathMax(0, data[1])
    ELSE LET half == Len(data) \div 2
         IN  MathMax(reduceMax(SubSeq(data, 1, half)),
                     reduceMax(SubSeq(data, half + 1, Len(data))))

\* line 56
safeMaxHz == MathMax(maxHz, MIN_LOG_HZ)

\* lines 59-68, and 76-84: the range an effect stores for prev
clampToData(prev, safeMax) ==
    LET start == MathMin(MathMax(prev.startHz, 0), safeMax - STEP_HZ)
        end == MathMin(MathMax(prev.endHz, STEP_HZ), safeMax)
    IN  [startHz |-> start,
         endHz |-> IF end - start < STEP_HZ
                   THEN MathMin(safeMax, start + STEP_HZ) ELSE end]

\* lines 72-89: the effect on the slider list
clampSliders(prev, safeMax) ==
    [i \in 1..Len(prev) |-> Spread(prev[i], clampToData(prev[i], safeMax))]

\* lines 191-209: the updater handleDraftRangeChange passes to setDraftRange
handleDraftRangeChange(prev, field, rawValue, safeMax) ==
    LET numeric == snapToStep(rawValue, STEP_HZ)
    IN  IF field = "startHz"
        THEN LET nextStart == MathMin(MathMax(0, numeric), safeMax - STEP_HZ)
             IN  [startHz |-> nextStart,
                  endHz |-> IF nextStart > prev.endHz - STEP_HZ
                            THEN MathMin(safeMax, nextStart + STEP_HZ)
                            ELSE prev.endHz]
        ELSE LET nextEnd == MathMax(MathMin(safeMax, numeric), STEP_HZ)
             IN  [startHz |-> IF nextEnd < prev.startHz + STEP_HZ
                              THEN MathMax(0, nextEnd - STEP_HZ)
                              ELSE prev.startHz,
                  endHz |-> nextEnd]

\* lines 211-229
addSliderFromDraft(prev, closure, draft) ==
    LET range == normalizeRange(draft.startHz, draft.endHz)
        nextId == IF Len(closure) # 0 THEN closure[Len(closure)].id + 1 ELSE 1
    IN  Append(prev, [id |-> nextId, startHz |-> range[1], endHz |-> range[2],
                      gain |-> One, label |-> "Range " \o ToString(nextId)])

\* lines 231-250, a start edit that leaves endHz alone
updateSliderRange_noPush(prev, id, field, rawValue, safeMax) ==
    LET numeric == snapToStep(rawValue, STEP_HZ)
    IN  [i \in 1..Len(prev) |->
            IF prev[i].id # id THEN prev[i]
            ELSE IF field = "startHz"
                 THEN Spread(prev[i],
                        [startHz |-> MathMin(MathMax(0, numeric), safeMax - STEP_HZ)])
                 ELSE Spread(prev[i],
                        [endHz |-> MathMax(MathMin(safeMax, numeric), STEP_HZ)])]

\* lines 231-250
updateSliderRange(prev, id, field, rawValue, safeMax) ==
    LET numeric == snapToStep(rawValue, STEP_HZ)
    IN  [i \in 1..Len(prev) |->
            IF prev[i].id # id THEN prev[i]
            ELSE IF field = "startHz"
                 THEN LET startHz == MathMin(MathMax(0, numeric), safeMax - STEP_HZ)
                      IN  Spread(prev[i],
                            [startHz |-> startHz,
                             endHz |-> IF startHz > prev[i].endHz - STEP_HZ
                                       THEN MathMin(safeMax, startHz + STEP_HZ)
                                       ELSE prev[i].endHz])
                 ELSE LET endHz == MathMax(MathMin(safeMax, numeric), STEP_HZ)
                      IN  Spread(prev[i],
                            [startHz |-> IF endHz < prev[i].startHz + STEP_HZ
                                         THEN MathMax(0, endHz - STEP_HZ)
                                         ELSE prev[i].startHz,
                             endHz |-> endHz])]

\* Math.max(a, b), Math.min(a, b) of JavaScript numbers: NaN when either is
JsMax(a, b) == IF IsNaN(a) \/ IsNaN(b) THEN NaN ELSE IF JsLe(a, b) THEN b ELSE a
JsMin(a, b) == IF IsNaN(a) \/ IsNaN(b) THEN NaN ELSE IF JsLe(a, b) THEN a ELSE b

\* lines 252-259
updateSliderGain(prev, id, rawValue) ==
    LET numeric == JsMin(Two, JsMax(Zero, rawValue))
    IN  [i \in 1..Len(prev) |->
            IF prev[i].id = id THEN Spread(prev[i], [gain |-> numeric])
            ELSE prev[i]]

\* lines 270-272
removeSlider_graph(prev, id) == SelectSeq(prev, LAMBDA slider : slider.id # id)

\* the initialData prop: the default, no point, points up to 20000 Hz
InitialDataInputs == {generateDummySpectrum, <<>>, <<0, 20000>>}

\* event.target.value of the range and number inputs, as numbers
RawHzInputs == {-15, 9004}
RawGainInputs == {Num(-1, 1), Num(3, 1)}
FieldInputs == {"startHz", "endHz"}

InitGraph ==
    /\ ProgInit
    /\ SignalIdle
    /\ GainIdle
    /\ PreviewIdle
    /\ PlayIdle
    /\ maxHz \in {reduceMax(initialData) : initialData \in InitialDataInputs}
    /\ sliderList = <<>>
    /\ draftRange = [startHz |-> 500, endHz |-> 1500]
    /\ graphPhase = "constructed"

\* the two effects of lines 58-89 after the first render
GraphMount ==
    /\ graphPhase = "constructed"
    /\ graphPhase' = "mounted"
    /\ draftRange' = clampToData(draftRange, safeMaxHz)
    /\ sliderList' = clampSliders(sliderList, safeMaxHz)
    /\ UNCHANGED maxHz
    /\ UNCHANGED <<progVars, signalVars, gainVars, previewVars, playVars>>

HandleDraftRangeChange(field, rawValue) ==
    /\ graphPhase = "mounted"
    /\ draftRange' = handleDraftRangeChange(draftRange, field, rawValue,
                                            safeMaxHz)
    /\ UNCHANGED <<maxHz, sliderList, graphPhase>>
    /\ UNCHANGED <<progVars, signalVars, gainVars, previewVars, playVars>>

\* the button of lines 373-375 is disabled unless canAddDraft (lines 278-279)
AddSliderFromDraft ==
    /\ graphPhase = "mounted"
    /\ draftRange.endHz - draftRange.startHz >= STEP_HZ
    /\ Len(sliderList) < MaxGraphSliders
    /\ \A i \in DOMAIN sliderList : sliderList[i].id < MaxGraphId
    /\ sliderList' = addSliderFromDraft(sliderList, sliderList, draftRange)
    /\ UNCHANGED <<maxHz, draftRange, graphPhase>>
    /\ UNCHANGED <<progVars, signalVars, gainVars, previewVars, playVars>>

UpdateSliderRange(id, field, rawValue) ==
    /\ graphPhase = "mounted"
    /\ sliderList' = updateSliderRange(sliderList, id, field, rawValue,
                                       safeMaxHz)
    /\ UNCHANGED <<maxHz, draftRange, graphPhase>>
    /\ UNCHANGED <<progVars, signalVars, gainVars, previewVars, playVars>>

UpdateSliderGain(id, rawValue) ==
    /\ graphPhase = "mounted"
    /\ sliderList' = updateSliderGain(sliderList, id, rawValue)
    /\ UNCHANGED <<maxHz, draftRange, graphPhase>>
    /\ UNCHANGED <<progVars, signalVars, gainVars, previewVars, playVars>>

GraphRemoveSlider(id) ==
    /\ graphPhase = "mounted"
    /\ sliderList' = removeSlider_graph(sliderList, id)
    /\ UNCHANGED <<maxHz, draftRange, graphPhase>>
    /\ UNCHANGED <<progVars, signalVars, gainVars, previewVars, playVars>>

\* lines 274-276, and the effects of lines 58-89 that the new safeMaxHz starts
RefreshDummyData ==
    /\ graphPhase = "mounted"
    /\ maxHz' = reduceMax(generateDummySpectrum)
    /\ LET safeMax == MathMax(maxHz', MIN_LOG_HZ)
       IN  /\ draftRange' = IF safeMax = safeMaxHz THEN draftRange
                            ELSE clampToData(draftRange, safeMax)
           /\ sliderList' = IF safeMax = safeMaxHz THEN sliderList
                            ELSE clampSliders(sliderList, safeMax)
    /\ UNCHANGED graphPhase
    /\ UNCHANGED <<progVars, signalVars, gainVars, previewVars, playVars>>

NextGraph ==
    \/ GraphMount
    \/ \E field \in FieldInputs : \E rawValue \in RawHzInputs :
           HandleDraftRangeChange(field, rawValue)
    \/ AddSliderFromDraft
    \/ \E id \in Range(idsOf(sliderList)) : \E field \in FieldInputs :
           \E rawValue \in RawHzInputs : UpdateSliderRange(id, field, rawValue)
    \/ \E id \in Range(idsOf(sliderList)) : \E rawValue \in RawGainInputs :
           UpdateSliderGain(id, rawValue)
    \/ \E id \in Range(idsOf(sliderList)) : GraphRemoveSlider(id)
    \/ RefreshDummyData

SpecGraph == InitGraph /\ [][NextGraph]_vars

WellFormed(range, safeMax) ==
    /\ 0 <= range.startHz
    /\ range.startHz <= safeMax
    /\ 0 <= range.endHz
    /\ range.endHz <= safeMax
    /\ range.endHz - range.startHz >= STEP_HZ

\* C30: once the graph is mounted, the draft range and every slider's range
\* lie in 0..safeMaxHz with endHz - startHz >= STEP_HZ, and every slider's
\* gain lies in [0, 2].
C30_RangesWellFormed ==
    graphPhase = "mounted" =>
        /\ WellFormed(draftRange, safeMaxHz)
        /\ \A i \in DOMAIN sliderList :
               /\ WellFormed(sliderList[i], safeMaxHz)
               /\ JsLe(Zero, sliderList[i].gain)
               /\ JsLe(sliderList[i].gain, Two)

\* C30 witness: on refreshed data, a slider whose gain was clamped to 2 and
\* whose range is the last STEP_HZ below safeMaxHz, where an edit or the
\* refresh pushed it
C30_Witness ==
    /\ graphPhase = "mounted"
    /\ safeMaxHz = 8000
    /\ \E i \in DOMAIN sliderList :
           /\ sliderList[i].gain = Two
           /\ sliderList[i].startHz = safeMaxHz - STEP_HZ
           /\ sliderList[i].endHz = safeMaxHz

(***************************************************************************)
(* Region selection and gain preview of modes/GenericMode.jsx (lines       *)
(* 246-344, 408-554).  The canvas is 800 px wide; a selection holds pixel  *)
(* positions.  selectedBand and bandRegionsRef are written by these        *)
(* handlers and read by none of them, and are left out.                    *)
(***************************************************************************)
MaxRegionSources == 2
MaxPreviewBands == 1

CanvasWidth == 800
MaxFreq == 20000

\* Math.floor, Math.round (floor(x + 1/2)) of a finite number
MathFloor(x) == Num(x.n \div x.d, 1)
MathRound(x) == MathFloor(JsAdd(x, Num(1, 2)))

\* lines 263-268: the selection handleMouseMove stores
dragTo(sel, x) ==
    LET boundedX == JsMax(Zero, JsMin(Hz(CanvasWidth), x))
    IN  [start |-> JsMin(sel.start, boundedX),
         end |-> JsMax(sel.start, boundedX),
         width |-> MathAbs(JsSub(boundedX, sel.start))]

\* (position / 800) * totalSamples, floored: lines 306-307, 428-429
sampleAt(position, totalSamples) ==
    MathFloor(JsMul(JsDiv(position, Hz(CanvasWidth)), Hz(totalSamples))).n

\* lines 298-320
validatedSelection(sel, audioBuffer) ==
    LET startFreq == JsMul(JsDiv(sel.start, Hz(CanvasWidth)), Hz(MaxFreq))
        endFreq == JsMul(JsDiv(sel.end, Hz(CanvasWidth)), Hz(MaxFreq))
    IN  [start |-> JsMax(Zero, sel.start),
         end |-> JsMin(Hz(CanvasWidth), sel.end),
         width |-> MathAbs(JsSub(sel.end, sel.start)),
         startFreq |-> startFreq,
         endFreq |-> endFreq,
         centerFreq |-> JsDiv(JsAdd(startFreq, endFreq), Two),
         startSample |-> sampleAt(sel.start, audioBuffer.length),
         endSample |-> sampleAt(sel.end, audioBuffer.length),
         sampleRate |-> audioBuffer.sampleRate]

\* lines 323-328: the argument of handleAddSlider
bandFromSelection(sel) ==
    LET startFreq == JsMul(JsDiv(sel.start, Hz(CanvasWidth)), Hz(MaxFreq))
        endFreq == JsMul(JsDiv(sel.end, Hz(CanvasWidth)), Hz(MaxFreq))
        centerFreq == JsDiv(JsAdd(startFreq, endFreq), Two)
    IN  [centerFreq |-> JsMax(Hz(20), JsMin(Hz(MaxFreq), centerFreq)),
         width |-> JsMax(Hz(50), JsMin(Hz(5000), JsSub(endFreq, startFreq))),
         gain |-> One,
         label |-> ToString(MathRound(centerFreq).n) \o "Hz Band"]

\* lines 419-434: <<startSample, endSample>> of the selection played
regionSamples(selectionToUse, audioBuffer) ==
    IF "startSample" \in DOMAIN selectionToUse /\ "endSample" \in DOMAIN selectionToUse
    THEN <<selectionToUse.startSample, selectionToUse.endSample>>
    ELSE <<sampleAt(selectionToUse.start, audioBuffer.length),
           sampleAt(selectionToUse.end, audioBuffer.length)>>

\* lines 455-468, scaling without the limit to [-1, 1]
audioData_unlimited(channelData, startSample, segmentLength, useGain, gainValue) ==
    [i \in 1..segmentLength |->
        IF startSample + i \in DOMAIN channelData
        THEN IF useGain /\ gainValue # One
             THEN JsMul(channelData[startSample + i], gainValue)
             ELSE channelData[startSample + i]
        ELSE Zero]

\* lines 450-468: the Float32Array playSelectedRegion fills; sample i of the
\* segment (from 1 here) is sample startSample + i of the channel
audioData(channelData, startSample, segmentLength, useGain, gainValue) ==
    [i \in 1..segmentLength |->
        IF startSample + i \in DOMAIN channelData
        THEN IF useGain /\ gainValue # One
             THEN JsMax(Num(-1, 1),
                        JsMin(One, JsMul(channelData[startSample + i], gainValue)))
             ELSE channelData[startSample + i]
        ELSE Zero]

\* lines 408-478: the alert playSelectedRegion shows, or "none", and the
\* samples of the segment buffer it creates
playSelectedRegion(selectionToUse, audioBuffer, useGain, gainValue) ==
    LET region == regionSamples(selectionToUse, audioBuffer)
        segmentLength == region[2] - region[1]
    IN  IF segmentLength <= 0
        THEN [alert |-> "Invalid audio segment", segment |-> <<>>]
        ELSE [alert |-> "none",
              segment |-> audioData(audioBuffer.channels[1], region[1],
                                    segmentLength, useGain, gainValue)]

\* lines 518-554: what handleBandPreview does with currentSelection
handleBandPreview(current, audioBuffer, gain) ==
    IF current = <<>>
    THEN [alert |-> "No region selected for this band", segment |-> <<>>]
    ELSE IF current[1].startSample = 0 \/ current[1].endSample = 0
    THEN [alert |-> "Selected region data is incomplete", segment |-> <<>>]
    ELSE playSelectedRegion(current[1], audioBuffer, TRUE, gain)

\* signals of n samples that are not constant
variedSignals(n) ==
    { [i \in 1..n |-> IF i % 3 = 1 THEN Num(3, 4)
                      ELSE IF i % 3 = 2 THEN Num(-3, 4) ELSE Num(1, 2)] }

\* clientX - rect.left of the mouse events
PixelInputs == {Hz(0), Hz(300), Hz(900)}

\* the gain of the band whose speaker button is pressed
PreviewGainInputs == {One, Num(3, 2)}

InitPreview ==
    /\ phase = "mounted"
    /\ sliders = defaultSliders
    /\ now = Epoch
    /\ debounceTimer = <<>>
    /\ loadTimer = <<>>
    /\ assignedIds = <<>>
    /\ lastCall = [op |-> "mount", before |-> <<>>, error |-> "none"]
    /\ view = "modes"
    /\ localSliders = <<>>
    /\ provider = 1
    /\ \E signal \in variedSignals(SignalLength) :
           buffers = <<createSyntheticAudioBuffer(signal)>>
    /\ inputSignal = Len(buffers)
    /\ outputSignal = Len(buffers)
    /\ runs = <<>>
    /\ isProcessing = FALSE
    /\ lastApply = [op |-> "none"]
    /\ runSeq = 0
    /\ GainIdle
    /\ PreviewIdle
    /\ PlayIdle
    /\ GraphIdle

\* lines 246-255
HandleMouseDown(x) ==
    /\ inputSignal # 0
    /\ isSelecting' = TRUE
    /\ selection' = <<[start |-> x, end |-> x, width |-> Zero]>>
    /\ UNCHANGED <<selectionTimer, currentSelection, audioSourceRef,
                   isPlayingRegion, regionSources, lastPreview>>
    /\ UNCHANGED <<progVars, signalVars, gainVars, playVars, graphVars>>

\* lines 257-269
HandleMouseMove(x) ==
    /\ isSelecting
    /\ selection # <<>>
    /\ inputSignal # 0
    /\ selection' = <<dragTo(selection[1], x)>>
    /\ UNCHANGED <<isSelecting, selectionTimer, currentSelection, audioSourceRef,
                   isPlayingRegion, regionSources, lastPreview>>
    /\ UNCHANGED <<progVars, signalVars, gainVars, playVars, graphVars>>

\* lines 271-277 (and handleMouseLeave, lines 279-283)
HandleMouseUp ==
    /\ isSelecting
    /\ isSelecting' = FALSE
    /\ UNCHANGED <<selection, selectionTimer, currentSelection, audioSourceRef,
                   isPlayingRegion, regionSources, lastPreview>>
    /\ UNCHANGED <<progVars, signalVars, gainVars, playVars, graphVars>>

\* lines 290-344: handleAddSlider (lines 69-73) adds the band to the
\* context's list and to the local list
CreateBandFromSelection ==
    /\ selection # <<>>
    /\ inputSignal # 0
    /\ Len(localSliders) < MaxPreviewBands
    /\ now < Epoch + MaxEvents
    /\ now' = now + 1
    /\ LET sliderData == bandFromSelection(selection[1])
       IN  /\ sliders' = addSlider(sliders, sliderData, now')
           /\ localSliders' = Append(localSliders, newSlider(sliders, sliderData, now'))
           /\ debounceTimer' = <<sliders'>>
           /\ assignedIds' = Append(assignedIds, now')
           /\ lastCall' = [op |-> "addSlider", before |-> sliders,
                           closure |-> sliders, data |-> <<sliderData>>,
                           assignedBefore |-> assignedIds,
                           rets |-> <<newSlider(sliders, sliderData, now')>>,
                           error |-> "none"]
    /\ currentSelection' = <<validatedSelection(selection[1], buffers[inputSignal])>>
    /\ selectionTimer' = TRUE
    /\ UNCHANGED <<selection, isSelecting, audioSourceRef, isPlayingRegion,
                   regionSources, lastPreview>>
    /\ UNCHANGED <<phase, loadTimer, view>>
    /\ UNCHANGED <<signalVars, gainVars, playVars, graphVars>>

\* lines 341-344: the timer of createBandFromSelection
SelectionTimerFire ==
    /\ selectionTimer
    /\ selectionTimer' = FALSE
    /\ selection' = <<>>
    /\ UNCHANGED <<isSelecting, currentSelection, audioSourceRef, isPlayingRegion,
                   regionSources, lastPreview>>
    /\ UNCHANGED <<progVars, signalVars, gainVars, playVars, graphVars>>

\* lines 438-443 and 470-478: the playing source is stopped and forgotten,
\* and a source for the new segment waits for audioContext.resume()
startRegion ==
    /\ regionSources' =
           Append([k \in DOMAIN regionSources |->
                      IF k = audioSourceRef
                      THEN [regionSources[k] EXCEPT !.state = "stopped"]
                      ELSE regionSources[k]],
                  [state |-> "resuming"])
    /\ audioSourceRef' = 0

\* lines 518-554, called by the speaker button of SliderController.jsx
\* (lines 40-47) with the band's gain
HandleBandPreview(gain) ==
    /\ inputSignal # 0
    /\ localSliders # <<>>
    /\ Len(regionSources) < MaxRegionSources
    /\ LET built == handleBandPreview(currentSelection, buffers[inputSignal], gain)
       IN  /\ lastPreview' = [op |-> "handleBandPreview", gain |-> gain,
                              selection |-> currentSelection,
                              input |-> buffers[inputSignal].channels[1],
                              alert |-> built.alert, segment |-> built.segment]
           /\ currentSelection' =
                  IF built.alert = "Selected region data is incomplete"
                  THEN <<>> ELSE currentSelection
           /\ IF built.alert = "none"
              THEN startRegion
              ELSE UNCHANGED <<regionSources, audioSourceRef>>
    /\ UNCHANGED <<selection, isSelecting, selectionTimer, isPlayingRegion>>
    /\ UNCHANGED <<progVars, signalVars, gainVars, playVars, graphVars>>

\* lines 631-633: the "play region" button, playSelectedRegion(false),
\* disabled when there is no currentSelection or a region is playing
HandlePlayRegion ==
    /\ inputSignal # 0
    /\ currentSelection # <<>>
    /\ ~isPlayingRegion
    /\ Len(regionSources) < MaxRegionSources
    /\ LET selectionToUse == IF currentSelection # <<>> THEN currentSelection[1]
                             ELSE selection[1]
           built == playSelectedRegion(selectionToUse, buffers[inputSignal],
                                       FALSE, One)
       IN  /\ lastPreview' = [op |-> "playSelectedRegion", gain |-> One,
                              selection |-> <<selectionToUse>>,
                              input |-> buffers[inputSignal].channels[1],
                              alert |-> built.alert, segment |-> built.segment]
           /\ IF built.alert = "none"
              THEN startRegion
              ELSE UNCHANGED <<regionSources, audioSourceRef>>
    /\ UNCHANGED <<selection, isSelecting, selectionTimer, currentSelection,
                   isPlayingRegion>>
    /\ UNCHANGED <<progVars, signalVars, gainVars, playVars, graphVars>>

\* lines 480-487: audioContext.resume() resolved
ResumeResolves(k) ==
    /\ regionSources[k].state = "resuming"
    /\ regionSources' = [regionSources EXCEPT ![k].state = "playing"]
    /\ audioSourceRef' = k
    /\ isPlayingRegion' = TRUE
    /\ UNCHANGED <<selection, isSelecting, selectionTimer, currentSelection,
                   lastPreview>>
    /\ UNCHANGED <<progVars, signalVars, gainVars, playVars, graphVars>>

\* lines 489-494: onended of a source that played to its end or was stopped
RegionOnended(k) ==
    /\ regionSources[k].state \in {"playing", "stopped"}
    /\ regionSources' = [regionSources EXCEPT ![k].state = "ended"]
    /\ isPlayingRegion' = FALSE
    /\ audioSourceRef' = 0
    /\ UNCHANGED <<selection, isSelecting, selectionTimer, currentSelection,
                   lastPreview>>
    /\ UNCHANGED <<progVars, signalVars, gainVars, playVars, graphVars>>

NextPreview ==
    \/ \E x \in PixelInputs : HandleMouseDown(x)
    \/ \E x \in PixelInputs : HandleMouseMove(x)
    \/ HandleMouseUp
    \/ CreateBandFromSelection
    \/ SelectionTimerFire
    \/ \E gain \in PreviewGainInputs : HandleBandPreview(gain)
    \/ HandlePlayRegion

SpecPreview == InitPreview /\ [][NextPreview]_vars

Previewed == lastPreview.op = "handleBandPreview" /\ lastPreview.selection # <<>>

\* the saved region of the last preview lies inside the input
RegionInside ==
    /\ 0 <= lastPreview.selection[1].startSample
    /\ lastPreview.selection[1].startSample < lastPreview.selection[1].endSample
    /\ lastPreview.selection[1].endSample <= Len(lastPreview.input)

\* C21: a preview of a saved region inside the input builds a segment of
\* endSample - startSample samples, sample i being input[startSample + i]
\* times the preview gain, and leaves the input's samples as they were.
C21_PreviewScalesRegion ==
    (Previewed /\ RegionInside) =>
        LET region == lastPreview.selection[1]
        IN  /\ lastPreview.alert = "none"
            /\ lastPreview.segment =
                   audioData_unlimited(lastPreview.input, region.startSample,
                                       region.endSample - region.startSample,
                                       TRUE, lastPreview.gain)
            /\ Len(lastPreview.segment) = region.endSample - region.startSample
            /\ buffers[inputSignal].channels[1] = lastPreview.input

\* C21, for regions that start after sample 0 and with each product limited
\* to [-1, 1] (holds)
C21_PreviewScalesRegion_Limited ==
    (Previewed /\ RegionInside /\ lastPreview.selection[1].startSample > 0) =>
        LET region == lastPreview.selection[1]
        IN  /\ lastPreview.alert = "none"
            /\ Len(lastPreview.segment) = region.endSample - region.startSample
            /\ \A i \in DOMAIN lastPreview.segment :
                   lastPreview.segment[i] =
                       Clamp(JsMul(lastPreview.input[region.startSample + i],
                                   lastPreview.gain), Num(-1, 1), One)
            /\ buffers[inputSignal].channels[1] = lastPreview.input

(***************************************************************************)
(* Playback of a region (modes/GenericMode.jsx lines 408-512): the state   *)
(* after a band was created from the selection 300..800 px, then previews  *)
(* and the callbacks of their sources.                                     *)
(***************************************************************************)
savedSelection == [start |-> Hz(300), end |-> Hz(CanvasWidth), width |-> Hz(500)]

InitRegion ==
    /\ phase = "mounted"
    /\ now = Epoch + 1
    /\ sliders = addSlider(defaultSliders, bandFromSelection(savedSelection), now)
    /\ localSliders = <<newSlider(defaultSliders, bandFromSelection(savedSelection), now)>>
    /\ debounceTimer = <<>>
    /\ loadTimer = <<>>
    /\ assignedIds = <<now>>
    /\ lastCall = [op |-> "mount", before |-> <<>>, error |-> "none"]
    /\ view = "modes"
    /\ provider = 1
    /\ \E signal \in variedSignals(SignalLength) :
           buffers = <<createSyntheticAudioBuffer(signal)>>
    /\ inputSignal = Len(buffers)
    /\ outputSignal = Len(buffers)
    /\ runs = <<>>
    /\ isProcessing = FALSE
    /\ lastApply = [op |-> "none"]
    /\ runSeq = 0
    /\ GainIdle
    /\ selection = <<>>
    /\ isSelecting = FALSE
    /\ selectionTimer = FALSE
    /\ currentSelection = <<validatedSelection(savedSelection, buffers[inputSignal])>>
    /\ audioSourceRef = 0
    /\ isPlayingRegion = FALSE
    /\ regionSources = <<>>
    /\ lastPreview = [op |-> "none"]
    /\ PlayIdle
    /\ GraphIdle

NextRegion ==
    \/ \E gain \in PreviewGainInputs : HandleBandPreview(gain)
    \/ HandlePlayRegion
    \/ \E k \in DOMAIN regionSources : ResumeResolves(k)
    \/ \E k \in DOMAIN regionSources : RegionOnended(k)

SpecRegion == InitRegion /\ [][NextRegion]_vars

\* C26, for playSelectedRegion: while the source started last is playing,
\* isPlayingRegion is true and audioSourceRef points to it.
C26_RegionSourceLive ==
    (regionSources # <<>> /\ regionSources[Len(regionSources)].state = "playing") =>
        /\ isPlayingRegion
        /\ audioSourceRef = Len(regionSources)

(***************************************************************************)
(* Playback in AudioProvider (AudioContext.jsx lines 685-734).  Times are  *)
(* counted in sample periods, so that buffer.duration is buffer.length.    *)
(* A source is "playing" from start() until stop() is called ("stopped")   *)
(* or its onended callback has run ("ended"); `frame` is the state of the  *)
(* animation frame its updateTime requested last.                          *)
(***************************************************************************)
MaxSources == 2
MaxClock == 4

duration(k) == buffers[sources[k].buffer].length

\* source.stop() of line 689 or 729: the source falls silent, and its ended
\* event is dispatched later
stop(srcs, k) ==
    [j \in DOMAIN srcs |->
        IF j = k /\ srcs[j].state = "playing"
        THEN [srcs[j] EXCEPT !.state = "stopped"] ELSE srcs[j]]

\* cancelAnimationFrame(animationFrameRef.current)
cancelAnimationFrame(srcs, ref) ==
    [j \in DOMAIN srcs |->
        IF j = ref /\ srcs[j].frame = "pending"
        THEN [srcs[j] EXCEPT !.frame = "cancelled"] ELSE srcs[j]]

InitPlay ==
    /\ phase = "mounted"
    /\ sliders = defaultSliders
    /\ now = Epoch
    /\ debounceTimer = <<>>
    /\ loadTimer = <<>>
    /\ assignedIds = <<>>
    /\ lastCall = [op |-> "mount", before |-> <<>>, error |-> "none"]
    /\ view = "modes"
    /\ localSliders = <<>>
    /\ provider = 1
    /\ \E signal \in SignalInputs(SignalLength) :
           buffers = <<createSyntheticAudioBuffer(signal)>>
    /\ inputSignal = Len(buffers)
    /\ outputSignal = Len(buffers)
    /\ runs = <<>>
    /\ isProcessing = FALSE
    /\ lastApply = [op |-> "none"]
    /\ runSeq = 0
    /\ GainIdle
    /\ ViewIdle

\* lines 685-726 (1071-1112)
PlayAudio(type) ==
    /\ (IF type = "input" THEN inputSignal ELSE outputSignal) # 0
    /\ Len(sources) < MaxSources
    /\ sources' = Append(stop(sources, sourceRef),
                         [buffer |-> IF type = "input" THEN inputSignal
                                     ELSE outputSignal,
                          state |-> "playing", startTime |-> audioClock,
                          frame |-> "pending"])
    /\ sourceRef' = Len(sources')
    /\ startTimeRef' = audioClock
    /\ isPlaying' = TRUE
    /\ animationFrameRef' = Len(sources')
    /\ lastPlay' = "playAudio"
    /\ UNCHANGED <<currentTime, audioClock>>
    /\ UNCHANGED <<progVars, signalVars, gainVars, previewVars, graphVars>>

\* lines 702-714: the frame requested by the updateTime of playAudio call k
UpdateTime(k) ==
    /\ sources[k].frame = "pending"
    /\ IF sourceRef = 0
       THEN /\ sources' = [sources EXCEPT ![k].frame = "none"]
            /\ UNCHANGED <<currentTime, isPlaying, sourceRef, animationFrameRef>>
       ELSE IF audioClock - startTimeRef >= duration(k)
       THEN /\ currentTime' = duration(k)
            /\ isPlaying' = FALSE
            /\ sourceRef' = 0
            /\ sources' = [sources EXCEPT ![k].frame = "none"]
            /\ UNCHANGED animationFrameRef
       ELSE /\ currentTime' = audioClock - startTimeRef
            /\ animationFrameRef' = k
            /\ UNCHANGED <<isPlaying, sourceRef, sources>>
    /\ UNCHANGED <<startTimeRef, audioClock, lastPlay>>
    /\ UNCHANGED <<progVars, signalVars, gainVars, previewVars, graphVars>>

\* lines 718-724: onended of source k, after stop() or at the end of its buffer
Onended(k) ==
    /\ \/ sources[k].state = "stopped"
       \/ /\ sources[k].state = "playing"
          /\ audioClock - sources[k].startTime >= duration(k)
    /\ isPlaying' = FALSE
    /\ currentTime' = duration(k)
    /\ sourceRef' = 0
    /\ sources' = cancelAnimationFrame([sources EXCEPT ![k].state = "ended"],
                                       animationFrameRef)
    /\ UNCHANGED <<startTimeRef, animationFrameRef, audioClock, lastPlay>>
    /\ UNCHANGED <<progVars, signalVars, gainVars, previewVars, graphVars>>

\* lines 728-734 (1114-1120)
StopAudio ==
    /\ sources' = cancelAnimationFrame(stop(sources, sourceRef), animationFrameRef)
    /\ isPlaying' = FALSE
    /\ currentTime' = 0
    /\ lastPlay' = "stopAudio"
    /\ UNCHANGED <<sourceRef, startTimeRef, animationFrameRef, audioClock>>
    /\ UNCHANGED <<progVars, signalVars, gainVars, previewVars, graphVars>>

\* the audio clock advances by one sample period
Tick ==
    /\ audioClock < MaxClock
    /\ audioClock' = audioClock + 1
    /\ UNCHANGED <<isPlaying, currentTime, sourceRef, startTimeRef,
                   animationFrameRef, sources, lastPlay>>
    /\ UNCHANGED <<progVars, signalVars, gainVars, previewVars, graphVars>>

NextPlay ==
    \/ \E type \in {"input", "output"} : PlayAudio(type)
    \/ \E k \in DOMAIN sources : UpdateTime(k)
    \/ \E k \in DOMAIN sources : Onended(k)
    \/ StopAudio
    \/ Tick

SpecPlay == InitPlay /\ [][NextPlay]_vars

\* source k is the one started last and is still sounding
Live(k) ==
    /\ k = Len(sources)
    /\ sources[k].state = "playing"
    /\ audioClock - sources[k].startTime < duration(k)

\* no callback is pending: no ended event to dispatch, no frame requested
Settled ==
    \A k \in DOMAIN sources :
        /\ sources[k].frame # "pending"
        /\ sources[k].state = "ended"

\* C26: while the source started last is sounding (it has not ended and
\* stopAudio was not called), isPlaying is true, sourceRef points to it and
\* its time updates are requested; and when stopAudio was called last and no
\* callback is pending, isPlaying is false and currentTime is 0.
C26_PlaybackMatchesSource ==
    /\ \A k \in DOMAIN sources :
           Live(k) => /\ isPlaying
                      /\ sourceRef = k
                      /\ sources[k].frame = "pending"
    /\ (lastPlay = "stopAudio" /\ Settled) => (~isPlaying /\ currentTime = 0)

\* C26, with one source and no stopAudio (holds)
C26_PlaybackMatchesSource_One ==
    (Len(sources) = 1 /\ Live(1)) =>
        /\ isPlaying
        /\ sourceRef = 1
        /\ sources[1].frame = "pending"

====
